---- MODULE Spec2Model ----
(***************************************************************************)
(* Hybrid RSA + AES-256-GCM envelope middleware with a replay guard.       *)
(*                                                                         *)
(* Two layers are modelled:                                                *)
(*   - the replay guard (MemoryReplayStore, RedisReplayStore) driven       *)
(*     through its public validate()/destroy() interface (SpecGuard);      *)
(*   - the orchestrator (HybridCryptoMiddleware) that calls the guard and  *)
(*     the codecs for every request (Spec).                                *)
(*                                                                         *)
(* One step of the model is one macrotask of the Node.js event loop: the   *)
(* synchronous code of a handler together with the continuations of        *)
(* awaits on promises that are already settled.  A handler is suspended    *)
(* between steps only while a reply of the external store is outstanding.  *)
(***************************************************************************)
EXTENDS Integers, Sequences, FiniteSets, TLC

(* ------------------------------ bounds -------------------------------- *)
\* options.replayMaxAge / options.maxAge in milliseconds (default 30 000).
maxAge == 1250
\* Date.now() when the store is constructed.
StartTime == 5000
\* The clock advances by this many milliseconds per Tick.
TickMs == 2750
\* Number of clock advances explored.
MaxTicks == 2
\* Number of requests the orchestrator receives.
MaxRequests == 2
StepMs == 1250
MaxSteps == 3

EndTime == StartTime + MaxTicks * TickMs

\* Callers that may have a validate call outstanding at the same time.
Procs == {"p1", "p2"}
\* Non-empty request identifiers in use.
RequestIds == {"r1", "r2"}

(* --------------------------- optional values --------------------------- *)
\* undefined is the empty tuple, a present value v is <<v>>.
None == <<>>
Some(v) == <<v>>
Val(o) == o[1]

Abs(x) == IF x < 0 THEN -x ELSE x

\* Math.ceil(a / b) for a >= 0, b > 0.
Ceil(a, b) == (a + b - 1) \div b

VARIABLES
  now,          \* Date.now()
  backend,      \* options.replayStore: "memory" | "redis" | "none"
  store,        \* MemoryReplayStore.store : key -> ReplayEntry
  cleanupTimer, \* MemoryReplayStore.cleanupTimer is set (TRUE) or null (FALSE)
  redis,        \* the external store: key -> [value, expireAt]
  calls,        \* validate calls suspended on a reply of the external store
  last,         \* the validate call that returned most recently
  accepted,     \* request ids some validate call has accepted so far
  lastAccepted, \* per request id, the timestamp MemoryReplayStore.validate accepted last
  onError,      \* options.onError is configured
  reqs,         \* requests between decryption() and their response
  lastReq,      \* the request whose decryption() ended most recently
  processed,    \* times each envelope was decrypted and handed to next()
  sealed,       \* every <<key, iv, plaintext>> the server has sealed
  received,     \* requests received so far
  lastRes,      \* the res.json call made most recently and what it emitted
  opened        \* the decryptPayload call made most recently, called directly

guardVars == <<now, backend, store, cleanupTimer, redis, calls, last, accepted,
               lastAccepted>>
mwVars == <<onError, reqs, lastReq, processed, sealed, received, lastRes, opened>>
vars == <<now, backend, store, cleanupTimer, redis, calls, last, accepted, lastAccepted,
          onError, reqs, lastReq, processed, sealed, received, lastRes, opened>>

(* ------------------------- replay.service.ts --------------------------- *)
MemoryKey(requestId) == <<"replay:", requestId>>
MemoryKeys == {MemoryKey(r) : r \in RequestIds}

\* !requestId || !timestamp
FieldsMissing(requestId, timestamp) ==
  \/ requestId = None
  \/ requestId = Some("")
  \/ timestamp = None
  \/ timestamp = Some(0)

\* Math.abs(now - timestamp) > this.maxAge
RequestExpired(at, timestamp) == Abs(at - Val(timestamp)) > maxAge

\* The checks validate makes before it touches the store.
PreCheck(requestId, timestamp, at) ==
  IF FieldsMissing(requestId, timestamp) THEN "MissingFields"
  ELSE IF RequestExpired(at, timestamp) THEN "Expired"
  ELSE "Pass"

\* this.store.has(key)
StoreHas(key) == store[key] /= None

\* MemoryReplayStore.validate: the outcome of the whole (synchronous) body.
MemoryOutcome(requestId, timestamp) ==
  LET pre == PreCheck(requestId, timestamp, now) IN
  IF pre /= "Pass" THEN pre
  ELSE IF StoreHas(MemoryKey(Val(requestId))) THEN "ReplayDetected"
  ELSE "Ok"

\* this.store.set(key, { timestamp: now })
MemoryStoreAfter(requestId, timestamp) ==
  IF MemoryOutcome(requestId, timestamp) = "Ok"
  THEN [store EXCEPT ![MemoryKey(Val(requestId))] = Some([timestamp |-> now])]
  ELSE store

\* cleanup(): now - entry.timestamp > expiryThreshold
EntryIsStaleSwapped(entry) == entry.timestamp - now > maxAge * 2

EntryIsStaleEarly(entry) == now - entry.timestamp > maxAge

EntryIsStale(entry) == now - entry.timestamp > maxAge * 2

StoreAfterCleanup ==
  [k \in MemoryKeys |->
     IF store[k] /= None /\ EntryIsStale(Val(store[k])) THEN None ELSE store[k]]

(* ---------------------- replay-redis.service.ts ------------------------ *)
keyPrefix == "crypto:replay:"
RedisKey(requestId) == <<keyPrefix, requestId>>
RedisKeys == {RedisKey(r) : r \in RequestIds}

MsPerSecond == 1000

\* Math.ceil((this.maxAge * 2) / 1000)
ttlSeconds == Ceil(maxAge * 2, MsPerSecond)

(* ------------------- the external store (RedisClient) ------------------ *)
\* SETNX key value: 1 when the key was set, 0 when it exists already.
SetnxReply(key) == IF redis[key] = None THEN 1 ELSE 0

SetnxOn(db, key) ==
  IF db[key] = None
  THEN [db EXCEPT ![key] = Some([value |-> "1", expireAt |-> None])]
  ELSE db

RedisAfterSetnx(key) == SetnxOn(redis, key)

\* EXPIRE key seconds: the key, when it exists, expires `seconds` from now.
ExpireOn(db, key, seconds) ==
  IF db[key] = None THEN db
  ELSE [db EXCEPT ![key] =
          Some([Val(@) EXCEPT !.expireAt = Some(now + seconds * MsPerSecond)])]

RedisAfterExpire(key, seconds) == ExpireOn(redis, key, seconds)

\* The store drops a key once its time to live has run out.
RedisAfterTime(t) ==
  [k \in RedisKeys |->
     IF redis[k] /= None /\ Val(redis[k]).expireAt /= None
        /\ t > Val(Val(redis[k]).expireAt)
     THEN None ELSE redis[k]]

(* ----------------------------- the guard ------------------------------- *)
IdleCall == [pc |-> "idle", requestId |-> None, raced |-> FALSE, seen |-> FALSE]

\* What is known of the validate call that acted most recently.  phase says
\* how much of the call the record covers: "whole" (MemoryReplayStore, whose
\* body is synchronous), "check" (RedisReplayStore up to its first await) or
\* "mark" (RedisReplayStore from the reply of SETNX to its return).
NoCall == [phase |-> "none", requestId |-> None, timestamp |-> None,
           at |-> StartTime, seen |-> FALSE, outcome |-> "none",
           raced |-> FALSE, again |-> FALSE, other |-> "none"]

Returned(phase, requestId, timestamp, at, seen, outcome, raced) ==
  [phase |-> phase, requestId |-> requestId, timestamp |-> timestamp,
   at |-> at, seen |-> seen, outcome |-> outcome, raced |-> raced,
   again |-> (outcome = "Ok" /\ Val(requestId) \in accepted), other |-> "none"]

AcceptedAfter(requestId, outcome) ==
  IF outcome = "Ok" THEN accepted \cup {Val(requestId)} ELSE accepted

LastAcceptedAfter(requestId, timestamp, outcome) ==
  IF outcome = "Ok" THEN [lastAccepted EXCEPT ![Val(requestId)] = timestamp]
  ELSE lastAccepted

\* Calls on the same id that are still in flight when one of them is accepted.
MarkRaced(p, requestId) ==
  [q \in Procs |->
     IF q = p THEN IdleCall
     ELSE IF calls[q].pc /= "idle" /\ calls[q].requestId = requestId
          THEN [calls[q] EXCEPT !.raced = TRUE]
          ELSE calls[q]]

\* MemoryReplayStore.validate, called directly.
MemoryValidate(requestId, timestamp) ==
  /\ backend = "memory"
  /\ LET outcome == MemoryOutcome(requestId, timestamp)
         seen == /\ PreCheck(requestId, timestamp, now) = "Pass"
                 /\ StoreHas(MemoryKey(Val(requestId)))
     IN /\ store' = MemoryStoreAfter(requestId, timestamp)
        /\ last' = Returned("whole", requestId, timestamp, now, seen, outcome, FALSE)
        /\ accepted' = AcceptedAfter(requestId, outcome)
        /\ lastAccepted' = LastAcceptedAfter(requestId, timestamp, outcome)
  /\ UNCHANGED <<now, backend, cleanupTimer, redis, calls>>
  /\ UNCHANGED mwVars

\* RedisReplayStore.validate up to the first await: it throws, or sends SETNX.
RedisValidate(p, requestId, timestamp) ==
  /\ backend = "redis"
  /\ calls[p].pc = "idle"
  /\ LET pre == PreCheck(requestId, timestamp, now) IN
     /\ last' = Returned("check", requestId, timestamp, now, FALSE,
                         IF pre = "Pass" THEN "Suspended" ELSE pre, FALSE)
     /\ calls' = IF pre = "Pass"
                 THEN [calls EXCEPT ![p] = [pc |-> "setnx",
                                            requestId |-> requestId,
                                            raced |-> FALSE, seen |-> FALSE]]
                 ELSE calls
  /\ UNCHANGED <<now, backend, store, cleanupTimer, redis, accepted, lastAccepted>>
  /\ UNCHANGED mwVars

\* The reply to SETNX arrives: 'Replay detected', or EXPIRE is sent.
RedisSetnxDone(p) ==
  /\ calls[p].pc = "setnx"
  /\ LET c == calls[p]
         key == RedisKey(Val(c.requestId))
     IN /\ redis' = RedisAfterSetnx(key)
        /\ IF SetnxReply(key) = 0
           THEN /\ last' = Returned("mark", c.requestId, None, now,
                                    redis[key] /= None, "ReplayDetected", c.raced)
                /\ calls' = [calls EXCEPT ![p] = IdleCall]
           ELSE /\ calls' = [calls EXCEPT ![p].pc = "expire",
                                         ![p].seen = (redis[key] /= None)]
                /\ UNCHANGED last
  /\ UNCHANGED <<now, backend, store, cleanupTimer, accepted, lastAccepted>>
  /\ UNCHANGED mwVars

\* The reply to EXPIRE arrives: validate returns.
RedisExpireDone(p) ==
  /\ calls[p].pc = "expire"
  /\ LET c == calls[p]
         key == RedisKey(Val(c.requestId))
     IN /\ redis' = RedisAfterExpire(key, ttlSeconds)
        /\ last' = Returned("mark", c.requestId, None, now, c.seen, "Ok", c.raced)
        /\ accepted' = AcceptedAfter(c.requestId, "Ok")
        /\ UNCHANGED lastAccepted
        /\ calls' = MarkRaced(p, c.requestId)
  /\ UNCHANGED <<now, backend, store, cleanupTimer>>
  /\ UNCHANGED mwVars

\* setInterval(() => this.cleanup(), cleanupInterval) fires.
Cleanup ==
  /\ backend = "memory"
  /\ cleanupTimer
  /\ store' = StoreAfterCleanup
  /\ UNCHANGED <<now, backend, cleanupTimer, redis, calls, last, accepted, lastAccepted>>
  /\ UNCHANGED mwVars

\* MemoryReplayStore.destroy / RedisReplayStore.destroy
StoreAfterDestroy == [k \in MemoryKeys |-> None]

DestroyKeepingTimer ==
  /\ backend /= "none"
  /\ IF backend = "memory"
     THEN /\ cleanupTimer' = cleanupTimer
          /\ store' = StoreAfterDestroy
     ELSE UNCHANGED <<cleanupTimer, store>>
  /\ UNCHANGED <<now, backend, redis, calls, last, accepted, lastAccepted>>
  /\ UNCHANGED mwVars

Destroy ==
  /\ backend /= "none"
  /\ IF backend = "memory"
     THEN /\ cleanupTimer' = FALSE
          /\ store' = StoreAfterDestroy
     ELSE UNCHANGED <<cleanupTimer, store>>
  /\ UNCHANGED <<now, backend, redis, calls, last, accepted, lastAccepted>>
  /\ UNCHANGED mwVars

\* Time passes; the external store applies its time to live.
Tick ==
  /\ now < EndTime
  /\ now' = now + TickMs
  /\ redis' = RedisAfterTime(now')
  /\ UNCHANGED <<backend, store, cleanupTimer, calls, last, accepted, lastAccepted>>
  /\ UNCHANGED mwVars

\* The timestamps a caller may present, relative to the clock.
TimestampInputs ==
  {None, Some(0), Some(now - maxAge - 1), Some(now - maxAge), Some(now),
   Some(now + maxAge), Some(now + maxAge + 1)}

RequestIdInputs == {None, Some("")} \cup {Some(r) : r \in RequestIds}

(* ------------------------------ codecs --------------------------------- *)
\* Buffer.toString('base64') and Buffer.from(s, 'base64').
ToBase64(bytes) == <<"base64", bytes>>
FromBase64(text) == text[2]

\* JSON.stringify and JSON.parse; text that is no JSON makes parse throw.
JsonStringify(value) == <<"json", value>>
IsJson(text) == text[1] = "json"
JsonParse(text) == text[2]

\* Bytes of the UTF-8 text of the values in use.
TextBytes(text) == IF IsJson(text) THEN 4 ELSE 7

GCM_AUTH_TAG_LENGTH == 16

\* AES-256-GCM: ciphertext of `text` under (key, iv) followed by its tag.
Seal(text, key, iv) ==
  [bytes |-> TextBytes(text) + GCM_AUTH_TAG_LENGTH,
   text |-> text, key |-> key, iv |-> iv, tag |-> "valid"]

\* RSA-OAEP: the session key under a public key.
Wrap(aesKey, publicKey) == [aesKey |-> aesKey, publicKey |-> publicKey]

(* ---------------------------- error values ----------------------------- *)
MsgMissing == "Missing requestId or timestamp"
MsgExpired == "Request expired"
MsgReplay == "Replay detected"
MsgTooShort == "Payload too short for GCM auth tag"
MsgAuth == "Unsupported state or unable to authenticate data"
MsgJson == "Unexpected token g in JSON at position 0"
MsgOaep == "error:02000079:rsa routines::oaep decoding error"
MsgRsaLength ==
  "error:0406506C:rsa routines:rsa_ossl_private_decrypt:data greater than mod len"
MsgStore == "Connection is closed."

\* What crypto.privateDecrypt may report, by OpenSSL version and input.
RsaMessages == {MsgOaep, MsgRsaLength}

\* String.prototype.includes on the messages above.
Includes(message, needle) ==
  <<message, needle>> \in {<<MsgTooShort, "Payload">>, <<MsgRsaLength, "decrypt">>}

\* new ReplayError(message)
ReplayError(outcome) ==
  [class |-> "ReplayError",
   message |-> CASE outcome = "MissingFields" -> MsgMissing
                 [] outcome = "Expired" -> MsgExpired
                 [] outcome = "ReplayDetected" -> MsgReplay]

PlainError(message) == [class |-> "Error", message |-> message]

(* ------------------------- crypto.service.ts --------------------------- *)
ServerKey == "server"

\* decryptAESKey: crypto.privateDecrypt with the server's private key.
DecryptAESKey(encryptedKeyB64, rsaMessage) ==
  LET wrapped == FromBase64(encryptedKeyB64) IN
  IF wrapped.publicKey = ServerKey
  THEN [ok |-> TRUE, aesKey |-> wrapped.aesKey]
  ELSE [ok |-> FALSE, cause |-> "KeyUnwrapFailure",
        error |-> PlainError(rsaMessage)]

DecryptPayloadUnverified(payloadB64, aesKey, ivB64) ==
  LET buffer == FromBase64(payloadB64)
  IN IF buffer.bytes < GCM_AUTH_TAG_LENGTH
     THEN [ok |-> FALSE, cause |-> "PayloadTooShort",
           error |-> PlainError(MsgTooShort)]
     ELSE IF ~IsJson(buffer.text)
     THEN [ok |-> FALSE, cause |-> "MalformedPayload",
           error |-> [class |-> "SyntaxError", message |-> MsgJson]]
     ELSE [ok |-> TRUE, value |-> JsonParse(buffer.text)]

\* decryptPayload: length check, tag verification, JSON.parse.
DecryptPayload(payloadB64, aesKey, ivB64) ==
  LET iv == FromBase64(ivB64)
      buffer == FromBase64(payloadB64)
  IN IF buffer.bytes < GCM_AUTH_TAG_LENGTH
     THEN [ok |-> FALSE, cause |-> "PayloadTooShort",
           error |-> PlainError(MsgTooShort)]
     ELSE IF ~(buffer.tag = "valid" /\ buffer.key = aesKey /\ buffer.iv = iv)
     THEN [ok |-> FALSE, cause |-> "AuthenticationFailure",
           error |-> PlainError(MsgAuth)]
     ELSE IF ~IsJson(buffer.text)
     THEN [ok |-> FALSE, cause |-> "MalformedPayload",
           error |-> [class |-> "SyntaxError", message |-> MsgJson]]
     ELSE [ok |-> TRUE, value |-> JsonParse(buffer.text)]

\* encryptResponseWithCustomIv, and encryptResponse once its IV is drawn:
\* the sealed payload.
EncryptResponseWithIv(data, aesKey, iv) ==
  ToBase64(Seal(JsonStringify(data), aesKey, iv))

(* --------------------------- middleware.ts ----------------------------- *)
\* extractEncryptedBody: the flat shape, else the shape nested under data.
IsEnvelope(obj) == obj.payload /= None /\ obj.key /= None /\ obj.iv /= None

ExtractNestedFirst(raw) ==
  IF raw = None THEN None
  ELSE IF Val(raw).data /= None /\ IsEnvelope(Val(Val(raw).data)) THEN Val(raw).data
  ELSE IF IsEnvelope(Val(raw)) THEN raw
  ELSE None

ExtractEncryptedBody(raw) ==
  IF raw = None THEN None
  ELSE IF IsEnvelope(Val(raw)) THEN raw
  ELSE IF Val(raw).data /= None /\ IsEnvelope(Val(Val(raw).data))
       THEN Val(raw).data
       ELSE None

\* The response handleError writes for an error (lines 196-206).
ErrorResponse(error) ==
  IF error.class = "ReplayError"
  THEN [status |-> 400, body |-> error.message]
  ELSE IF Includes(error.message, "decrypt") \/ Includes(error.message, "Payload")
  THEN [status |-> 400, body |-> "Decryption failed"]
  ELSE [status |-> 500, body |-> "Internal server error"]

\* handleError: the observer is called first; when it throws, nothing is
\* written and the handler's promise rejects.
HandleError(error, observerThrows) ==
  IF onError /\ observerThrows
  THEN [response |-> None, observed |-> 1, escaped |-> TRUE]
  ELSE [response |-> Some(ErrorResponse(error)),
        observed |-> IF onError THEN 1 ELSE 0, escaped |-> FALSE]

DecryptBodyAttachingEarly(body, rsaMessage) ==
  LET k == DecryptAESKey(Val(body.key), rsaMessage) IN
  IF ~k.ok
  THEN [steps |-> <<"unwrap">>, cause |-> k.cause, error |-> Some(k.error),
        value |-> None, crypto |-> None]
  ELSE LET d == DecryptPayload(Val(body.payload), k.aesKey, Val(body.iv))
           context == Some([aesKey |-> k.aesKey, requestId |-> body.requestId,
                            headerIv |-> None])
       IN IF ~d.ok
          THEN [steps |-> <<"unwrap", "context", "open">>, cause |-> d.cause,
                error |-> Some(d.error), value |-> None, crypto |-> context]
          ELSE [steps |-> <<"unwrap", "context", "open", "body", "next">>,
                cause |-> "none", error |-> None, value |-> Some(d.value),
                crypto |-> context]

\* Lines 89-100 of decryption(): unwrap, open, replace the body, attach the
\* context, call next().  steps lists what was executed, in order.
DecryptBody(body, rsaMessage) ==
  LET k == DecryptAESKey(Val(body.key), rsaMessage) IN
  IF ~k.ok
  THEN [steps |-> <<"unwrap">>, cause |-> k.cause, error |-> Some(k.error),
        value |-> None, crypto |-> None]
  ELSE LET d == DecryptPayload(Val(body.payload), k.aesKey, Val(body.iv)) IN
       IF ~d.ok
       THEN [steps |-> <<"unwrap", "open">>, cause |-> d.cause,
             error |-> Some(d.error), value |-> None, crypto |-> None]
       ELSE [steps |-> <<"unwrap", "open", "body", "context", "next">>,
             cause |-> "none", error |-> None, value |-> Some(d.value),
             crypto |-> Some([aesKey |-> k.aesKey, requestId |-> body.requestId,
                              headerIv |-> None])]

\* The header path (lines 57-75).
DecryptHeaders(req, rsaMessage) ==
  IF req.xkey = None \/ req.xiv = None
  THEN [steps |-> <<>>, cause |-> "MissingHeaders", error |-> None,
        value |-> None, crypto |-> None]
  ELSE LET k == DecryptAESKey(Val(req.xkey), rsaMessage) IN
       IF ~k.ok
       THEN [steps |-> <<"unwrap">>, cause |-> k.cause, error |-> Some(k.error),
             value |-> None, crypto |-> None]
       ELSE [steps |-> <<"unwrap", "context", "next">>, cause |-> "none",
             error |-> None, value |-> None,
             crypto |-> Some([aesKey |-> k.aesKey, requestId |-> None,
                              headerIv |-> req.xiv])]

\* What a request carried when it arrived: the wrapped key, the IV (x-iv or
\* the envelope's iv) and the requestId.
Origin(key, iv, requestId) == [key |-> key, iv |-> iv, requestId |-> requestId]
NoOrigin == Origin(None, None, None)
BodyOrigin(b) == Origin(b.key, b.iv, b.requestId)

IdleReq == [pc |-> "idle", body |-> None, crypto |-> None, path |-> "none",
            origin |-> NoOrigin]

NoReq == [path |-> "none", guard |-> "none", steps |-> <<>>, cause |-> "none",
          response |-> None, nextCalls |-> 0, observed |-> 0, escaped |-> FALSE,
          value |-> None, crypto |-> None]

EnvelopeId(body) == <<body.key, body.payload, body.iv>>

\* decryption() ends for request p: with next() when r carries no failure,
\* with the response of the failure otherwise.
Settle(p, path, guard, pre, r, body, origin, observerThrows) ==
  LET failed == r.cause /= "none"
      h == IF r.error /= None THEN HandleError(Val(r.error), observerThrows)
           ELSE [response |-> IF failed
                              THEN Some([status |-> 400,
                                         body |-> "Missing encryption headers"])
                              ELSE None,
                 observed |-> 0, escaped |-> FALSE]
  IN /\ lastReq' = [path |-> path, guard |-> guard, steps |-> pre \o r.steps,
                    cause |-> r.cause, response |-> h.response,
                    nextCalls |-> IF failed THEN 0 ELSE 1,
                    observed |-> h.observed, escaped |-> h.escaped,
                    value |-> r.value, crypto |-> r.crypto]
     /\ reqs' = [reqs EXCEPT ![p] =
                   IF failed THEN IdleReq
                   ELSE [pc |-> "handler", body |-> None, crypto |-> r.crypto,
                         path |-> path, origin |-> origin]]
     /\ processed' = IF path = "body" /\ ~failed
                     THEN [processed EXCEPT ![EnvelopeId(body)] =
                             IF @ < 2 THEN @ + 1 ELSE @]
                     ELSE processed

GuardFailureAfterUnwrap(outcome) ==
  [steps |-> <<"unwrap">>, cause |-> outcome, error |-> Some(ReplayError(outcome)),
   value |-> None, crypto |-> None]

\* A failure of the guard, as the value decryption() catches.
GuardFailure(outcome) ==
  [steps |-> <<>>, cause |-> outcome, error |-> Some(ReplayError(outcome)),
   value |-> None, crypto |-> None]

StoreFailure ==
  [steps |-> <<>>, cause |-> "StoreError", error |-> Some(PlainError(MsgStore)),
   value |-> None, crypto |-> None]

PassThrough ==
  [steps |-> <<"next">>, cause |-> "none", error |-> None, value |-> None,
   crypto |-> None]

\* decryption(), header path: the guard is not consulted.
HeaderPathGuarded(p, req, observerThrows, rsaMessage) ==
  /\ Settle(p, "header", "none", <<>>, DecryptHeaders(req, rsaMessage),
            None, Origin(req.xkey, req.xiv, None), observerThrows)
  /\ store' = [k \in MemoryKeys |-> Some([timestamp |-> now])]
  /\ UNCHANGED redis

HeaderPath(p, req, observerThrows, rsaMessage) ==
  /\ Settle(p, "header", "none", <<>>, DecryptHeaders(req, rsaMessage),
            None, Origin(req.xkey, req.xiv, None), observerThrows)
  /\ UNCHANGED <<store, redis>>

NoEnvelopePathAttaching(p, observerThrows) ==
  /\ Settle(p, "passthrough", "none", <<>>,
            [PassThrough EXCEPT !.crypto = Some([aesKey |-> "k0", requestId |-> None,
                                                 headerIv |-> None])],
            None, NoOrigin, observerThrows)
  /\ UNCHANGED <<store, redis>>

\* decryption(), no envelope in the body or a GET without the marker: next().
NoEnvelopePath(p, observerThrows) ==
  /\ Settle(p, "passthrough", "none", <<>>, PassThrough, None, NoOrigin,
            observerThrows)
  /\ UNCHANGED <<store, redis>>

BodyPathUnmarking(p, b, observerThrows, rsaMessage) ==
  CASE backend = "none" ->
         /\ Settle(p, "body", "none", <<>>, DecryptBody(b, rsaMessage),
                   b, BodyOrigin(b), observerThrows)
         /\ UNCHANGED <<store, redis>>
    [] backend = "memory" ->
         LET outcome == MemoryOutcome(b.requestId, b.timestamp) IN
         /\ store' = IF outcome = "Ok" /\ DecryptBody(b, rsaMessage).cause /= "none"
                     THEN store
                     ELSE MemoryStoreAfter(b.requestId, b.timestamp)
         /\ UNCHANGED redis
         /\ Settle(p, "body", outcome, <<"validate">>,
                   IF outcome = "Ok" THEN DecryptBody(b, rsaMessage)
                   ELSE GuardFailure(outcome),
                   b, BodyOrigin(b), observerThrows)
    [] backend = "redis" ->
         LET pre == PreCheck(b.requestId, b.timestamp, now) IN
         /\ UNCHANGED <<store, redis>>
         /\ IF pre = "Pass"
            THEN /\ reqs' = [reqs EXCEPT ![p] =
                        [pc |-> "setnx",
                         body |-> Some([b EXCEPT !.timestamp = None]),
                         crypto |-> None, path |-> "body",
                         origin |-> BodyOrigin(b)]]
                 /\ UNCHANGED <<lastReq, processed>>
            ELSE Settle(p, "body", pre, <<"validate">>,
                        GuardFailure(pre), b, BodyOrigin(b), observerThrows)

\* decryption(), body path with envelope b, up to its end or to the first
\* reply it has to wait for.
BodyPath(p, b, observerThrows, rsaMessage) ==
  CASE backend = "none" ->
         /\ Settle(p, "body", "none", <<>>, DecryptBody(b, rsaMessage),
                   b, BodyOrigin(b), observerThrows)
         /\ UNCHANGED <<store, redis>>
    [] backend = "memory" ->
         LET outcome == MemoryOutcome(b.requestId, b.timestamp) IN
         /\ store' = MemoryStoreAfter(b.requestId, b.timestamp)
         /\ UNCHANGED redis
         /\ Settle(p, "body", outcome, <<"validate">>,
                   IF outcome = "Ok" THEN DecryptBody(b, rsaMessage)
                   ELSE GuardFailure(outcome),
                   b, BodyOrigin(b), observerThrows)
    [] backend = "redis" ->
         LET pre == PreCheck(b.requestId, b.timestamp, now) IN
         /\ UNCHANGED <<store, redis>>
         /\ IF pre = "Pass"
            THEN /\ reqs' = [reqs EXCEPT ![p] =
                        [pc |-> "setnx",
                         body |-> Some([b EXCEPT !.timestamp = None]),
                         crypto |-> None, path |-> "body",
                         origin |-> BodyOrigin(b)]]
                 /\ UNCHANGED <<lastReq, processed>>
            ELSE Settle(p, "body", pre, <<"validate">>,
                        GuardFailure(pre), b, BodyOrigin(b), observerThrows)

\* decryption() runs for a new request, up to its end or to the first reply
\* it has to wait for.
Receive(p, req, observerThrows, rsaMessage) ==
  /\ reqs[p].pc = "idle"
  /\ received < MaxRequests
  /\ received' = received + 1
  /\ LET body == ExtractEncryptedBody(req.body) IN
     IF req.method = "GET" /\ req.marker = Some("1")
     THEN HeaderPath(p, req, observerThrows, rsaMessage)
     ELSE IF req.method /= "GET" /\ body /= None
     THEN BodyPath(p, Val(body), observerThrows, rsaMessage)
     ELSE NoEnvelopePath(p, observerThrows)
  /\ UNCHANGED <<now, backend, cleanupTimer, calls, last, accepted, lastAccepted,
                 onError, sealed,
                 lastRes, opened>>

\* The reply to the request's SETNX arrives.
ReqSetnxDone(p, observerThrows) ==
  /\ reqs[p].pc = "setnx"
  /\ LET b == Val(reqs[p].body)
         key == RedisKey(Val(b.requestId))
     IN /\ redis' = RedisAfterSetnx(key)
        /\ IF SetnxReply(key) = 0
           THEN Settle(p, "body", "ReplayDetected", <<"validate">>,
                       GuardFailure("ReplayDetected"), b, BodyOrigin(b),
                       observerThrows)
           ELSE /\ reqs' = [reqs EXCEPT ![p].pc = "expire"]
                /\ UNCHANGED <<lastReq, processed>>
  /\ UNCHANGED <<now, backend, store, cleanupTimer, calls, last, accepted, lastAccepted,
                 onError, sealed, received, lastRes, opened>>

\* The reply to the request's EXPIRE arrives: validate returns and
\* decryption() goes on.
ReqExpireDone(p, observerThrows, rsaMessage) ==
  /\ reqs[p].pc = "expire"
  /\ LET b == Val(reqs[p].body)
         key == RedisKey(Val(b.requestId))
     IN /\ redis' = RedisAfterExpire(key, ttlSeconds)
        /\ Settle(p, "body", "Ok", <<"validate">>, DecryptBody(b, rsaMessage),
                  b, BodyOrigin(b), observerThrows)
  /\ UNCHANGED <<now, backend, store, cleanupTimer, calls, last, accepted, lastAccepted,
                 onError, sealed, received, lastRes, opened>>

\* The external store fails a command of the request: the awaited promise
\* rejects.  The command may or may not have been applied.
ReqStoreFault(p, applied, observerThrows) ==
  /\ reqs[p].pc \in {"setnx", "expire"}
  /\ LET b == Val(reqs[p].body)
         key == RedisKey(Val(b.requestId))
     IN /\ redis' = IF ~applied THEN redis
                    ELSE IF reqs[p].pc = "setnx" THEN RedisAfterSetnx(key)
                    ELSE RedisAfterExpire(key, ttlSeconds)
        /\ Settle(p, "body", "StoreError", <<"validate">>, StoreFailure, b,
                  BodyOrigin(b), observerThrows)
  /\ UNCHANGED <<now, backend, store, cleanupTimer, calls, last, accepted, lastAccepted,
                 onError, sealed, received, lastRes, opened>>

\* Initialization vectors crypto.randomBytes has not produced yet.
RandomIvs == {"n1", "n2"}
UnusedIvs == {iv \in RandomIvs : \A s \in sealed : s[2] /= iv}

\* What one sealing adds to the record of sealings: key, IV and plaintext.
Sealing(payloadB64) ==
  LET out == FromBase64(payloadB64) IN <<out.key, out.iv, out.text>>

\* What res.json emits: the value itself (raw), or an EncryptedResponse.
RawOutput(data) ==
  [encrypted |-> FALSE, version |-> None, requestId |-> None, payload |-> None,
   iv |-> None, raw |-> Some(data)]

EncryptedOutputNoId(requestId, payload, iv) ==
  [encrypted |-> TRUE, version |-> Some("v1"), requestId |-> None,
   payload |-> Some(payload), iv |-> Some(iv), raw |-> None]

EncryptedOutput(requestId, payload, iv) ==
  [encrypted |-> TRUE, version |-> Some("v1"), requestId |-> requestId,
   payload |-> Some(payload), iv |-> Some(iv), raw |-> None]

\* The res.json override of encryption(), with newIv the value
\* crypto.randomBytes returns when encryptResponse is reached.
EncryptionWrongKey(crypto, data, newIv) ==
  IF crypto = None THEN RawOutput(data)
  ELSE IF Val(crypto).headerIv /= None
  THEN EncryptedOutput(None,
         EncryptResponseWithIv(data, "k0", FromBase64(Val(Val(crypto).headerIv))),
         Val(Val(crypto).headerIv))
  ELSE EncryptedOutput(Val(crypto).requestId,
         EncryptResponseWithIv(data, "k0", newIv), ToBase64(newIv))

Encryption(crypto, data, newIv) ==
  IF crypto = None THEN RawOutput(data)
  ELSE IF Val(crypto).headerIv /= None
  THEN EncryptedOutput(None,
         EncryptResponseWithIv(data, Val(crypto).aesKey,
                               FromBase64(Val(Val(crypto).headerIv))),
         Val(Val(crypto).headerIv))
  ELSE EncryptedOutput(Val(crypto).requestId,
         EncryptResponseWithIv(data, Val(crypto).aesKey, newIv),
         ToBase64(newIv))

NoRes == [path |-> "none", data |-> None, crypto |-> None, origin |-> NoOrigin,
          out |-> None]

ResJsonShared(p, data) ==
  /\ reqs[p].pc = "handler"
  /\ LET crypto == lastReq.crypto
         random == crypto /= None /\ Val(crypto).headerIv = None
         newIv == IF UnusedIvs = {} THEN "n0" ELSE CHOOSE iv \in UnusedIvs : TRUE
         out == Encryption(crypto, data, newIv)
     IN /\ random => UnusedIvs /= {}
        /\ sealed' = IF out.encrypted
                      THEN sealed \cup {Sealing(Val(out.payload))}
                      ELSE sealed
        /\ lastRes' = [path |-> reqs[p].path, data |-> Some(data),
                       crypto |-> crypto, origin |-> reqs[p].origin,
                       out |-> Some(out)]
  /\ reqs' = [reqs EXCEPT ![p] = IdleReq]
  /\ UNCHANGED <<now, backend, store, cleanupTimer, redis, calls, last, accepted,
                 lastAccepted,
                 onError, lastReq, processed, received, opened>>

\* The route handler calls res.json(data): encryption() returns the value as
\* it is when no session key is attached, seals it under the request's own IV
\* on the header path, and under a new random IV otherwise.
ResJson(p, data) ==
  /\ reqs[p].pc = "handler"
  /\ LET crypto == reqs[p].crypto
         random == crypto /= None /\ Val(crypto).headerIv = None
         newIv == IF UnusedIvs = {} THEN "n0" ELSE CHOOSE iv \in UnusedIvs : TRUE
         out == Encryption(crypto, data, newIv)
     IN /\ random => UnusedIvs /= {}
        /\ sealed' = IF out.encrypted
                      THEN sealed \cup {Sealing(Val(out.payload))}
                      ELSE sealed
        /\ lastRes' = [path |-> reqs[p].path, data |-> Some(data),
                       crypto |-> crypto, origin |-> reqs[p].origin,
                       out |-> Some(out)]
  /\ reqs' = [reqs EXCEPT ![p] = IdleReq]
  /\ UNCHANGED <<now, backend, store, cleanupTimer, redis, calls, last, accepted,
                 lastAccepted,
                 onError, lastReq, processed, received, opened>>

(* --------------------------- MiddlewareOptions ------------------------- *)
\* The options that select the replay store: replayProtection and replayStore
\* left out or given, a Redis client given or not.
StoreOptions ==
  [replayProtection : {None, Some(TRUE), Some(FALSE)},
   replayStore : {None, Some("memory"), Some("redis")},
   redis : BOOLEAN]

\* createReplayStore: the store the middleware is built with, "none" for
\* null, "throws" when the constructor throws.
CreateReplayStore(options) ==
  IF options.replayProtection = Some(FALSE) THEN "none"
  ELSE IF options.replayStore = Some("redis")
  THEN IF ~options.redis THEN "throws" ELSE "redis"
  ELSE "memory"

(* ------------------------------ requests ------------------------------- *)
ClientKey == "k1"
ClientIv == "iv1"
ClientValue == "m1"
ResponseValues == {"a", "b"}

\* Keys as they may arrive: wrapped for the server, or for another key pair.
WrappedKeys == {ToBase64(Wrap(ClientKey, ServerKey)),
                ToBase64(Wrap(ClientKey, "other"))}

\* Payloads as they may arrive: as the client sealed it, with a flipped bit,
\* cut below the tag length, or sealing text that is no JSON.
Payloads ==
  LET good == Seal(JsonStringify(ClientValue), ClientKey, ClientIv) IN
  {ToBase64(good),
   ToBase64([good EXCEPT !.tag = "invalid"]),
   ToBase64([good EXCEPT !.bytes = GCM_AUTH_TAG_LENGTH - 1]),
   ToBase64(Seal(<<"text", "garbage">>, ClientKey, ClientIv))}

\* The envelopes of EncryptedBodyPayload presented to the server: the
\* client's own under every guard input, and the damaged ones under a fresh
\* guard input.
Envelope(k, pl, r, t) ==
  [key |-> Some(k), payload |-> Some(pl), iv |-> Some(ToBase64(ClientIv)),
   requestId |-> r, timestamp |-> t, data |-> None]

GoodKey == ToBase64(Wrap(ClientKey, ServerKey))
GoodPayload == ToBase64(Seal(JsonStringify(ClientValue), ClientKey, ClientIv))

Envelopes ==
  {Envelope(GoodKey, GoodPayload, r, t) :
     r \in {None} \cup {Some(x) : x \in RequestIds},
     t \in {None, Some(now), Some(now - maxAge - 1)}}
  \cup {Envelope(k, pl, Some("r1"), Some(now)) : k \in WrappedKeys, pl \in Payloads}

EnvelopeIds == {<<Some(k), Some(pl), Some(ToBase64(ClientIv))>> :
                  k \in WrappedKeys, pl \in Payloads}

NoEnvelope == [key |-> None, payload |-> None, iv |-> None, requestId |-> None,
               timestamp |-> None, data |-> None]

(* ----------------------------- client.ts ------------------------------- *)
\* ClientCrypto.encryptRequest, with the random key and IV and the requestId
\* and timestamp it draws given as arguments.
EncryptRequest(data, aesKey, iv, requestId, timestamp) ==
  [key |-> Some(ToBase64(Wrap(aesKey, ServerKey))),
   payload |-> Some(ToBase64(Seal(JsonStringify(data), aesKey, iv))),
   iv |-> Some(ToBase64(iv)),
   requestId |-> requestId, timestamp |-> timestamp, data |-> None]

\* ClientCrypto.encryptGetRequest: the headers of an encrypted GET.
EncryptGetRequest(aesKey, iv) ==
  [method |-> "GET", marker |-> Some("1"),
   xkey |-> Some(ToBase64(Wrap(aesKey, ServerKey))), xiv |-> Some(ToBase64(iv)),
   body |-> None]

\* ClientCrypto.decryptResponse: length check, tag verification, JSON.parse.
DecryptResponse(input, aesKey) ==
  LET iv == FromBase64(Val(input.iv))
      buffer == FromBase64(Val(input.payload))
  IN IF buffer.bytes < GCM_AUTH_TAG_LENGTH
     THEN [ok |-> FALSE, value |-> None]
     ELSE IF ~(buffer.tag = "valid" /\ buffer.key = aesKey /\ buffer.iv = iv)
     THEN [ok |-> FALSE, value |-> None]
     ELSE IF ~IsJson(buffer.text)
     THEN [ok |-> FALSE, value |-> None]
     ELSE [ok |-> TRUE, value |-> Some(JsonParse(buffer.text))]

\* The client's own envelope under the guard inputs of a first presentation.
FreshEnvelope == Envelope(GoodKey, GoodPayload, Some("r1"), Some(now))

\* Bodies with no envelope in them: no body, an empty object, and objects
\* that lack one of key, payload and iv, flat or under data.
PlainBodies ==
  {None, Some(NoEnvelope),
   Some([FreshEnvelope EXCEPT !.iv = None]),
   Some([NoEnvelope EXCEPT !.data = Some([FreshEnvelope EXCEPT !.payload = None])])}

\* Bodies as they may arrive: without an envelope, with a flat envelope, with
\* an envelope under data, and with both shapes at once.
Bodies ==
  PlainBodies \cup {Some(e) : e \in Envelopes}
    \cup {Some([NoEnvelope EXCEPT !.data = Some(e)]) :
            e \in {Envelope(GoodKey, GoodPayload, r, Some(now)) :
                     r \in {Some(x) : x \in RequestIds}}}
    \cup {Some([FreshEnvelope EXCEPT
                  !.data = Some(Envelope(GoodKey, GoodPayload, Some("r2"), Some(now)))])}

\* No decryptPayload call has been made directly yet.
NoOpen == [blob |-> None, key |-> None, iv |-> None, result |-> None]

Requests ==
  {[method |-> "GET", marker |-> Some("1"), xkey |-> k, xiv |-> iv, body |-> None] :
     k \in {None} \cup {Some(w) : w \in WrappedKeys},
     iv \in {None, Some(ToBase64(ClientIv))}}
  \cup
  {[method |-> "POST", marker |-> None, xkey |-> None, xiv |-> None, body |-> b] :
     b \in Bodies}
  \cup
  {[method |-> "GET", marker |-> None, xkey |-> None, xiv |-> None, body |-> b] :
     b \in {None, Some(FreshEnvelope)}}

Init ==
  /\ now = StartTime
  /\ backend \in {"memory", "redis", "none"}
  /\ store = [k \in MemoryKeys |-> None]
  /\ cleanupTimer = (backend = "memory")
  /\ redis = [k \in RedisKeys |-> None]
  /\ calls = [p \in Procs |-> IdleCall]
  /\ last = NoCall
  /\ accepted = {}
  /\ lastAccepted = [r \in RequestIds |-> None]
  /\ onError \in BOOLEAN
  /\ reqs = [p \in Procs |-> IdleReq]
  /\ lastReq = NoReq
  /\ processed = [e \in EnvelopeIds |-> 0]
  /\ sealed = {}
  /\ received = 0
  /\ lastRes = NoRes
  /\ opened = NoOpen

\* What a configured observer may do when called: return (FALSE) or throw
\* (TRUE).  With no observer configured nothing is called.
ObserverThrows == IF onError THEN BOOLEAN ELSE {FALSE}

Next ==
  \/ \E p \in Procs, req \in Requests, o \in ObserverThrows, m \in RsaMessages :
       Receive(p, req, o, m)
  \/ \E p \in Procs, o \in ObserverThrows : ReqSetnxDone(p, o)
  \/ \E p \in Procs, o \in ObserverThrows, m \in RsaMessages :
       ReqExpireDone(p, o, m)
  \/ \E p \in Procs, a \in BOOLEAN, o \in ObserverThrows : ReqStoreFault(p, a, o)
  \/ \E p \in Procs, d \in ResponseValues : ResJson(p, d)
  \/ Cleanup
  \/ Destroy
  \/ Tick

Spec == Init /\ [][Next]_vars

InitGuard ==
  /\ now = StartTime
  /\ backend \in {"memory", "redis"}
  /\ store = [k \in MemoryKeys |-> None]
  /\ cleanupTimer = (backend = "memory")
  /\ redis = [k \in RedisKeys |-> None]
  /\ calls = [p \in Procs |-> IdleCall]
  /\ last = NoCall
  /\ accepted = {}
  /\ lastAccepted = [r \in RequestIds |-> None]
  /\ onError = FALSE
  /\ reqs = [p \in Procs |-> IdleReq]
  /\ lastReq = NoReq
  /\ processed = [e \in EnvelopeIds |-> 0]
  /\ sealed = {}
  /\ received = 0
  /\ lastRes = NoRes
  /\ opened = NoOpen

NextGuard ==
  \/ \E r \in RequestIdInputs, t \in TimestampInputs : MemoryValidate(r, t)
  \/ \E p \in Procs, r \in RequestIdInputs, t \in TimestampInputs :
       RedisValidate(p, r, t)
  \/ \E p \in Procs : RedisSetnxDone(p)
  \/ \E p \in Procs : RedisExpireDone(p)
  \/ Cleanup
  \/ Destroy
  \/ Tick

SpecGuard == InitGuard /\ [][NextGuard]_vars

\* The guard of a running process: destroy() is not called, the interval timer
\* keeps firing, the clock advances and the external store answers.
NextLive ==
  \/ \E r \in RequestIdInputs, t \in TimestampInputs : MemoryValidate(r, t)
  \/ \E p \in Procs, r \in RequestIdInputs, t \in TimestampInputs :
       RedisValidate(p, r, t)
  \/ \E p \in Procs : RedisSetnxDone(p)
  \/ \E p \in Procs : RedisExpireDone(p)
  \/ Cleanup
  \/ Tick

SpecLive ==
  /\ InitGuard
  /\ [][NextLive]_vars
  /\ WF_vars(Cleanup)
  /\ WF_vars(Tick)
  /\ \A p \in Procs : WF_vars(RedisSetnxDone(p))
  /\ \A p \in Procs : WF_vars(RedisExpireDone(p))

(* ------------------- the two backends side by side --------------------- *)
\* RedisReplayStore.validate against a store that answers at once and
\* without faults: its outcome, and the store it leaves.
RedisOutcome(requestId, timestamp) ==
  LET pre == PreCheck(requestId, timestamp, now) IN
  IF pre /= "Pass" THEN pre
  ELSE IF SetnxReply(RedisKey(Val(requestId))) = 0 THEN "ReplayDetected"
  ELSE "Ok"

RedisStoreAfter(requestId, timestamp) ==
  IF RedisOutcome(requestId, timestamp) = "Ok"
  THEN ExpireOn(SetnxOn(redis, RedisKey(Val(requestId))),
                RedisKey(Val(requestId)), ttlSeconds)
  ELSE redis

\* One call, made on a MemoryReplayStore and on a RedisReplayStore at the
\* same time of the clock.  The sweep has run since the clock last advanced.
PairValidate(requestId, timestamp) ==
  /\ backend = "both"
  /\ store = StoreAfterCleanup
  /\ store' = MemoryStoreAfter(requestId, timestamp)
  /\ redis' = RedisStoreAfter(requestId, timestamp)
  /\ last' = [Returned("pair", requestId, timestamp, now,
                       PreCheck(requestId, timestamp, now) = "Pass"
                         /\ StoreHas(MemoryKey(Val(requestId))),
                       MemoryOutcome(requestId, timestamp), FALSE)
                EXCEPT !.other = RedisOutcome(requestId, timestamp)]
  /\ accepted' = AcceptedAfter(requestId, MemoryOutcome(requestId, timestamp))
  /\ lastAccepted' = LastAcceptedAfter(requestId, timestamp, MemoryOutcome(requestId, timestamp))
  /\ UNCHANGED <<now, backend, cleanupTimer, calls>>
  /\ UNCHANGED mwVars

\* The sweep of the MemoryReplayStore of the pair.
PairCleanup ==
  /\ backend = "both"
  /\ cleanupTimer
  /\ store /= StoreAfterCleanup
  /\ store' = StoreAfterCleanup
  /\ UNCHANGED <<now, backend, cleanupTimer, redis, calls, last, accepted, lastAccepted>>
  /\ UNCHANGED mwVars

InitPair ==
  /\ now = StartTime
  /\ backend = "both"
  /\ store = [k \in MemoryKeys |-> None]
  /\ cleanupTimer = TRUE
  /\ redis = [k \in RedisKeys |-> None]
  /\ calls = [p \in Procs |-> IdleCall]
  /\ last = NoCall
  /\ accepted = {}
  /\ lastAccepted = [r \in RequestIds |-> None]
  /\ onError = FALSE
  /\ reqs = [p \in Procs |-> IdleReq]
  /\ lastReq = NoReq
  /\ processed = [e \in EnvelopeIds |-> 0]
  /\ sealed = {}
  /\ received = 0
  /\ lastRes = NoRes
  /\ opened = NoOpen

NextPair ==
  \/ \E r \in RequestIdInputs, t \in TimestampInputs : PairValidate(r, t)
  \/ PairCleanup
  \/ Tick

SpecPair == InitPair /\ [][NextPair]_vars

(* ------------- the in-memory store under every sweep schedule ---------- *)
\* Time passes, in steps no longer than the freshness window.
Step ==
  /\ now < StartTime + MaxSteps * StepMs
  /\ now' = now + StepMs
  /\ redis' = RedisAfterTime(now')
  /\ UNCHANGED <<backend, store, cleanupTimer, calls, last, accepted, lastAccepted>>
  /\ UNCHANGED mwVars

\* The timestamps a caller may present: those around the clock and, for a
\* request presented again, the timestamp it was accepted with.
RetryInputs == TimestampInputs \cup {lastAccepted[r] : r \in RequestIds}

InitSweep ==
  /\ now = StartTime
  /\ backend = "memory"
  /\ store = [k \in MemoryKeys |-> None]
  /\ cleanupTimer = TRUE
  /\ redis = [k \in RedisKeys |-> None]
  /\ calls = [p \in Procs |-> IdleCall]
  /\ last = NoCall
  /\ accepted = {}
  /\ lastAccepted = [r \in RequestIds |-> None]
  /\ onError = FALSE
  /\ reqs = [p \in Procs |-> IdleReq]
  /\ lastReq = NoReq
  /\ processed = [e \in EnvelopeIds |-> 0]
  /\ sealed = {}
  /\ received = 0
  /\ lastRes = NoRes
  /\ opened = NoOpen

\* destroy() is not called; the timer may fire at any moment, or not at all.
NextSweep ==
  \/ \E r \in RequestIdInputs, t \in RetryInputs : MemoryValidate(r, t)
  \/ Cleanup
  \/ Step

SpecSweep == InitSweep /\ [][NextSweep]_vars

(* ------------------------ the codec on its own ------------------------- *)
CodecKeys == {ClientKey, "k2"}
CodecIvs == {ClientIv, "iv2"}

\* Blobs as seal produces them.
SealedBlobs ==
  {Seal(text, k, iv) :
     text \in {JsonStringify(ClientValue), <<"text", "garbage">>},
     k \in CodecKeys, iv \in CodecIvs}

\* A sealed blob as it may reach open: intact, with a bit of the tag
\* flipped, with a bit of the ciphertext flipped (the tag no longer matches
\* either way), or cut to a given number of bytes.
Damaged(blob) ==
  {blob,
   [blob EXCEPT !.tag = "invalid"],
   [blob EXCEPT !.text = <<"text", "flipped">>, !.tag = "invalid"]}
  \cup {[blob EXCEPT !.bytes = n, !.text = <<"text", "cut">>, !.tag = "invalid"] :
          n \in {0, GCM_AUTH_TAG_LENGTH - 1, GCM_AUTH_TAG_LENGTH}}

CodecBlobs == UNION {Damaged(blob) : blob \in SealedBlobs}

\* CryptoService.decryptPayload called on a blob with a key and an IV.
Open(blob, key, iv) ==
  /\ opened' = [blob |-> Some(blob), key |-> Some(key), iv |-> Some(iv),
                result |-> Some(DecryptPayload(ToBase64(blob), key, ToBase64(iv)))]
  /\ UNCHANGED guardVars
  /\ UNCHANGED <<onError, reqs, lastReq, processed, sealed, received, lastRes>>

InitCodec ==
  /\ now = StartTime
  /\ backend = "none"
  /\ store = [k \in MemoryKeys |-> None]
  /\ cleanupTimer = FALSE
  /\ redis = [k \in RedisKeys |-> None]
  /\ calls = [p \in Procs |-> IdleCall]
  /\ last = NoCall
  /\ accepted = {}
  /\ lastAccepted = [r \in RequestIds |-> None]
  /\ onError = FALSE
  /\ reqs = [p \in Procs |-> IdleReq]
  /\ lastReq = NoReq
  /\ processed = [e \in EnvelopeIds |-> 0]
  /\ sealed = {}
  /\ received = 0
  /\ lastRes = NoRes
  /\ opened = NoOpen

NextCodec ==
  \E blob \in CodecBlobs, key \in CodecKeys, iv \in CodecIvs : Open(blob, key, iv)

SpecCodec == InitCodec /\ [][NextCodec]_vars

(* ------------------- requests of two clients at once ------------------- *)
\* Two clients, each with the session key, IV and request id it has drawn.
Clients ==
  {[aesKey |-> ClientKey, iv |-> ClientIv, requestId |-> "r1"],
   [aesKey |-> "k2", iv |-> "iv2", requestId |-> "r2"]}

ClientEnvelope(c) ==
  EncryptRequest(ClientValue, c.aesKey, c.iv, Some(c.requestId), Some(now))

\* What the clients send: an encrypted GET, an encrypted POST, a plain POST.
ClientRequests ==
  {EncryptGetRequest(c.aesKey, c.iv) : c \in Clients}
  \cup {[method |-> "POST", marker |-> None, xkey |-> None, xiv |-> None,
          body |-> Some(ClientEnvelope(c))] : c \in Clients}
  \cup {[method |-> "POST", marker |-> None, xkey |-> None, xiv |-> None,
          body |-> None]}

InitClients ==
  /\ now = StartTime
  /\ backend \in {"memory", "redis", "none"}
  /\ store = [k \in MemoryKeys |-> None]
  /\ cleanupTimer = (backend = "memory")
  /\ redis = [k \in RedisKeys |-> None]
  /\ calls = [p \in Procs |-> IdleCall]
  /\ last = NoCall
  /\ accepted = {}
  /\ lastAccepted = [r \in RequestIds |-> None]
  /\ onError = FALSE
  /\ reqs = [p \in Procs |-> IdleReq]
  /\ lastReq = NoReq
  /\ processed = [e \in {EnvelopeId(ClientEnvelope(c)) : c \in Clients} |-> 0]
  /\ sealed = {}
  /\ received = 0
  /\ lastRes = NoRes
  /\ opened = NoOpen

\* The store answers every command; handlers respond in any order.
NextClients ==
  \/ \E p \in Procs, req \in ClientRequests, m \in RsaMessages :
       Receive(p, req, FALSE, m)
  \/ \E p \in Procs : ReqSetnxDone(p, FALSE)
  \/ \E p \in Procs, m \in RsaMessages : ReqExpireDone(p, FALSE, m)
  \/ \E p \in Procs, d \in ResponseValues : ResJson(p, d)

SpecClients == InitClients /\ [][NextClients]_vars

(* ---------------------- requests of every shape ------------------------ *)
\* Envelopes told apart by what they carry: the flat one alone, the nested
\* one, and the flat one of a body that has both.
FlatEnvelope == EncryptRequest(ClientValue, ClientKey, ClientIv, Some("r1"), Some(now))
NestedEnvelope == EncryptRequest(ClientValue, "k2", ClientIv, Some("r2"), Some(now))
OuterEnvelope == EncryptRequest(ClientValue, ClientKey, "iv2", Some("r1"), Some(now))

ShapeBodies ==
  {None,
   Some(NoEnvelope),
   Some([FlatEnvelope EXCEPT !.key = None]),
   Some(FlatEnvelope),
   Some([NoEnvelope EXCEPT !.data = Some(NestedEnvelope)]),
   Some([OuterEnvelope EXCEPT !.data = Some(NestedEnvelope)])}

\* Every combination of method, x-encrypted marker, key and IV headers, body.
ShapeRequests ==
  {[method |-> me, marker |-> ma,
    xkey |-> IF h THEN Some(ToBase64(Wrap(ClientKey, "other"))) ELSE None,
    xiv |-> IF h THEN Some(ToBase64(ClientIv)) ELSE None, body |-> b] :
     me \in {"GET", "DELETE"},
     ma \in {None, Some("1"), Some("true")},
     h \in BOOLEAN,
     b \in ShapeBodies}
  \cup
  {[EncryptGetRequest(ClientKey, ClientIv) EXCEPT !.body = b] : b \in ShapeBodies}

InitShapes ==
  /\ now = StartTime
  /\ backend \in {"memory", "redis", "none"}
  /\ store = [k \in MemoryKeys |-> None]
  /\ cleanupTimer = (backend = "memory")
  /\ redis = [k \in RedisKeys |-> None]
  /\ calls = [p \in Procs |-> IdleCall]
  /\ last = NoCall
  /\ accepted = {}
  /\ lastAccepted = [r \in RequestIds |-> None]
  /\ onError = FALSE
  /\ reqs = [p \in Procs |-> IdleReq]
  /\ lastReq = NoReq
  /\ processed = [e \in {EnvelopeId(FlatEnvelope), EnvelopeId(NestedEnvelope),
                          EnvelopeId(OuterEnvelope)} |-> 0]
  /\ sealed = {}
  /\ received = 0
  /\ lastRes = NoRes
  /\ opened = NoOpen

NextShapes ==
  \/ \E p \in Procs, req \in ShapeRequests, m \in RsaMessages :
       Receive(p, req, FALSE, m)
  \/ \E p \in Procs : ReqSetnxDone(p, FALSE)
  \/ \E p \in Procs, m \in RsaMessages : ReqExpireDone(p, FALSE, m)
  \/ \E p \in Procs, d \in ResponseValues : ResJson(p, d)

SpecShapes == InitShapes /\ [][NextShapes]_vars

(* ----------------------- properties of the guard ----------------------- *)

\* C1: of the validate calls on one request id that are in flight together,
\* exactly one returns Ok and every other fails with ReplayDetected: a call
\* that was in flight while another call on its id was accepted (raced) is
\* never accepted itself, and a call that finds the id marked is rejected.
C1_AtMostOnce ==
  /\ last.raced => last.outcome = "ReplayDetected"
  /\ last.seen => last.outcome = "ReplayDetected"

\* C3 (safety): a call that passes the field and freshness checks returns Ok
\* when the store holds no record of its id and ReplayDetected when it does.
C3_CheckAndMark ==
  last.phase \in {"whole", "mark"} =>
    /\ last.outcome = "ReplayDetected" <=> last.seen
    /\ last.outcome = "Ok" =>
         /\ ~last.seen
         /\ last.phase = "whole" =>
              PreCheck(last.requestId, last.timestamp, last.at) = "Pass"
    /\ (last.phase = "mark" /\ ~last.seen) => last.outcome = "Ok"
    /\ ( /\ last.phase = "whole"
         /\ last.requestId \in {Some(r) : r \in RequestIds}
         /\ last.timestamp /= None
         /\ last.timestamp /= Some(0)
         /\ Abs(last.at - Val(last.timestamp)) <= maxAge
         /\ ~last.seen ) => last.outcome = "Ok"

\* C3 (expiry): a record of the local backend that is older than twice the
\* freshness window is eventually absent, and the shared backend never shows
\* a key whose time to live has run out.
C3_Expiry ==
  /\ \A k \in MemoryKeys :
       (store[k] /= None /\ now - Val(store[k]).timestamp > 2 * maxAge)
         ~> (store[k] = None)
  /\ [](\A k \in RedisKeys :
          (redis[k] /= None /\ Val(redis[k]).expireAt /= None)
            => now <= Val(Val(redis[k]).expireAt))

\* C3: r validated with a fresh timestamp returns Ok, again before expiry
\* ReplayDetected; once expiry has occurred the record is absent and r,
\* presented with a fresh timestamp, returns Ok again.
C3_Scenario == []C3_CheckAndMark /\ C3_Expiry

\* C3 witness: an id that was accepted before is accepted again.
C3_Witness == last.outcome = "Ok" /\ last.again

\* C4: a call on an id not yet seen, with a non-empty id and a timestamp t,
\* passes when |now - t| <= maxAge and fails with Expired when it is larger.
C4_FreshnessBoundary ==
  ( /\ last.phase \in {"whole", "check"}
    /\ last.requestId \in {Some(r) : r \in RequestIds}
    /\ last.timestamp /= None
    /\ ~last.seen ) =>
      IF Abs(last.at - Val(last.timestamp)) <= maxAge
      THEN last.outcome \in {"Ok", "Suspended"}
      ELSE last.outcome = "Expired"

\* C5: validate fails with MissingFields exactly when the request id is
\* absent or empty or the timestamp is absent; any integer timestamp is
\* classified by the freshness and replay checks only.
C5_MissingFieldsIff ==
  last.phase \in {"whole", "check"} =>
    ( last.outcome = "MissingFields"
        <=> ( \/ last.requestId = None
              \/ last.requestId = Some("")
              \/ last.timestamp = None ) )

(* -------------------- properties of the orchestrator ------------------- *)
GuardFailures == {"MissingFields", "Expired", "ReplayDetected"}
GuardMessages == {MsgMissing, MsgExpired, MsgReplay}
DecryptionCauses == {"KeyUnwrapFailure", "AuthenticationFailure",
                     "MalformedPayload", "PayloadTooShort"}
DecryptionFailed == [status |-> 400, body |-> "Decryption failed"]
InternalError == [status |-> 500, body |-> "Internal server error"]

BodyOrder == <<"validate", "unwrap", "open", "body", "context", "next">>
IsPrefix(s, t) == Len(s) <= Len(t) /\ s = SubSeq(t, 1, Len(s))

\* C2: with replay protection enabled, an envelope (wrapped key, IV,
\* ciphertext and tag) accepted once on the body path is never decrypted and
\* handed to business logic a second time, whatever requestId and timestamp
\* are sent alongside it.
C2_EnvelopeProcessedOnce ==
  backend /= "none" => \A e \in EnvelopeIds : processed[e] <= 1

\* C6: on the body path with a replay guard configured the steps run in the
\* order validate, unwrap, open, body replacement, context attachment; when
\* validate fails nothing after it runs, req.body and the crypto context are
\* unchanged and next() is not called.
C6_ValidateFirst ==
  (lastReq.path = "body" /\ backend /= "none") =>
    /\ IsPrefix(lastReq.steps, BodyOrder)
    /\ Len(lastReq.steps) >= 1
    /\ lastReq.guard /= "Ok" =>
         /\ lastReq.steps = <<"validate">>
         /\ lastReq.value = None
         /\ lastReq.crypto = None
         /\ lastReq.nextCalls = 0
    /\ lastReq.guard = "Ok" =>
         /\ lastReq.value /= None <=> lastReq.nextCalls = 1
         /\ lastReq.crypto /= None <=> lastReq.nextCalls = 1
         /\ lastReq.nextCalls = 1 <=> lastReq.steps = BodyOrder

\* C6 witness: after one envelope went through all the steps, a request on
\* the body path is stopped by the guard.
C6_Witness ==
  /\ backend /= "none"
  /\ lastReq.path = "body"
  /\ lastReq.guard = "ReplayDetected"
  /\ lastReq.steps = <<"validate">>
  /\ \E e \in EnvelopeIds : processed[e] = 1

\* C7: the server never seals two different plaintexts under the same
\* (session key, IV) pair, the same header envelope presented twice included.
C7_NoIvReuse ==
  \A s \in sealed, t \in sealed : (s[1] = t[1] /\ s[2] = t[2]) => s[3] = t[3]

\* C8: a key-unwrap failure, an authentication failure, a malformed payload
\* and a too-short payload all get the same response, 400 'Decryption failed'.
C8_UniformDecryptionFailure ==
  (lastReq.cause \in DecryptionCauses /\ lastReq.response /= None) =>
    Val(lastReq.response) = DecryptionFailed

\* C9: a failure of the replay guard is reported with the response naming
\* it, which differs from the decryption-failure and the internal-failure
\* responses; no decryption failure is reported with a guard message.
C9_GuardFailuresDistinct ==
  /\ lastReq.guard \in GuardFailures =>
       /\ lastReq.response /= None
       /\ Val(lastReq.response).status = 400
       /\ Val(lastReq.response).body = ReplayError(lastReq.guard).message
       /\ Val(lastReq.response) \notin {DecryptionFailed, InternalError}
  /\ (lastReq.cause \in DecryptionCauses /\ lastReq.response /= None) =>
       Val(lastReq.response).body \notin GuardMessages

\* C10: a request that entered decryption() either had next() called once
\* and no error response, or one error response and no next(); a failure
\* outside the guard and decryption categories is answered 500; no error
\* leaves the handler as a rejection.
C10_ExactlyOneOutcome ==
  lastReq.path /= "none" =>
    /\ \/ lastReq.nextCalls = 1 /\ lastReq.response = None
       \/ lastReq.nextCalls = 0 /\ lastReq.response /= None
    /\ lastReq.cause = "StoreError" => lastReq.response = Some(InternalError)
    /\ ~lastReq.escaped

\* The failures of the taxonomy and the response each gets when no observer
\* is configured.
Taxonomy == GuardFailures \cup DecryptionCauses \cup {"MissingHeaders"}

MissingHeadersResponse == [status |-> 400, body |-> "Missing encryption headers"]

PlainResponses(cause) ==
  CASE cause \in GuardFailures -> {ErrorResponse(ReplayError(cause))}
    [] cause = "PayloadTooShort" -> {ErrorResponse(PlainError(MsgTooShort))}
    [] cause = "AuthenticationFailure" -> {ErrorResponse(PlainError(MsgAuth))}
    [] cause = "MalformedPayload" ->
         {ErrorResponse([class |-> "SyntaxError", message |-> MsgJson])}
    [] cause = "KeyUnwrapFailure" ->
         {ErrorResponse(PlainError(m)) : m \in RsaMessages}
    [] cause = "MissingHeaders" -> {MissingHeadersResponse}

\* C11: with an observer configured, every failure of the taxonomy has the
\* observer invoked exactly once, and the response written is the one written
\* with no observer configured, whatever the observer does.
C11_ObserverOnce ==
  (onError /\ lastReq.cause \in Taxonomy) =>
    /\ lastReq.observed = 1
    /\ lastReq.response /= None
    /\ Val(lastReq.response) \in PlainResponses(lastReq.cause)

\* C12: a request on the header path (GET with x-encrypted = '1') never calls
\* the replay guard: the step that handles it leaves the replay store as it
\* was, whether the request succeeds or fails.
C12_HeaderPathLeavesGuard ==
  /\ [](lastReq.path = "header" =>
          /\ lastReq.guard = "none"
          /\ \A i \in 1..Len(lastReq.steps) : lastReq.steps[i] /= "validate")
  /\ [][(received' /= received /\ lastReq'.path = "header")
          => (store' = store /\ redis' = redis)]_vars

\* C12 witness: a header-path request was handled while the store held a
\* record.
C12_Witness ==
  /\ lastReq.path = "header"
  /\ \/ \E k \in MemoryKeys : store[k] /= None
     \/ \E k \in RedisKeys : redis[k] /= None

\* A request with no recognizable envelope shape: not on the header path, and
\* its body has neither a flat nor a data-nested object with key, payload and
\* iv all present.
Shaped(obj) == obj.key /= None /\ obj.payload /= None /\ obj.iv /= None

NoShape(req) ==
  /\ ~(req.method = "GET" /\ req.marker = Some("1"))
  /\ \/ req.body = None
     \/ /\ ~Shaped(Val(req.body))
        /\ Val(req.body).data = None \/ ~Shaped(Val(Val(req.body).data))

\* C13: a request with no recognizable envelope shape reaches business logic
\* with its body unmodified, without any replay-store access and without a
\* crypto context, and the value passed to res.json for it is emitted unsealed
\* and unchanged.
C13_PassThrough ==
  /\ [][\A p \in Procs, req \in {r \in Requests : NoShape(r)},
           o \in BOOLEAN, m \in RsaMessages :
           Receive(p, req, o, m) =>
             /\ lastReq'.path = "passthrough"
             /\ lastReq'.nextCalls = 1
             /\ lastReq'.response = None
             /\ lastReq'.value = None
             /\ lastReq'.crypto = None
             /\ lastReq'.guard = "none"
             /\ reqs'[p].crypto = None
             /\ store' = store
             /\ redis' = redis]_vars
  /\ [](lastRes.path = "passthrough" =>
          /\ ~Val(lastRes.out).encrypted
          /\ Val(lastRes.out).raw = lastRes.data)
  /\ [][(lastRes' /= lastRes /\ lastRes'.path = "passthrough")
          => sealed' = sealed]_vars

\* C13 witness: with a record in the replay store, a request without an
\* envelope went through and its res.json value was emitted.
C13_Witness ==
  /\ lastReq.path = "passthrough"
  /\ lastRes.path = "passthrough"
  /\ Val(lastRes.out).raw = lastRes.data
  /\ \/ \E k \in MemoryKeys : store[k] /= None
     \/ \E k \in RedisKeys : redis[k] /= None

\* The session key a wrapped key holds for the server.
SessionKeyOf(origin) == FromBase64(Val(origin.key)).aesKey

\* C14: a header-path response envelope carries the inbound x-iv and no
\* requestId; a body-path response envelope carries a newly generated IV, not
\* taken from the request, and the requestId of the request envelope (absent
\* only when the request carried none); both carry encrypted = true and
\* version = 'v1' and are sealed under the session key of that same request.
C14_ResponseEnvelope ==
  lastRes.path \in {"header", "body"} =>
    LET out == Val(lastRes.out)
        blob == FromBase64(Val(out.payload))
    IN /\ out.encrypted
       /\ out.version = Some("v1")
       /\ out.raw = None
       /\ blob.key = SessionKeyOf(lastRes.origin)
       /\ blob.tag = "valid"
       /\ blob.iv = FromBase64(Val(out.iv))
       /\ lastRes.path = "header" =>
            /\ out.iv = lastRes.origin.iv
            /\ out.requestId = None
       /\ lastRes.path = "body" =>
            /\ out.iv /= lastRes.origin.iv
            /\ FromBase64(Val(out.iv)) \in RandomIvs
            /\ out.requestId = lastRes.origin.requestId

\* C14 witness: a body-path response that echoes a requestId, after a
\* header-path response was sealed.
C14_Witness ==
  /\ lastRes.path = "body"
  /\ Val(lastRes.out).requestId = Some("r1")
  /\ \E t \in sealed : t[2] = ClientIv

\* C15: driven by the same validate calls and clock advances, with the sweep
\* applied and the external store answering without faults, the two
\* backends return the same outcome for every call.
C15_BackendsAgree == last.phase = "pair" => last.outcome = last.other

Modified(blob, key, iv) ==
  blob.tag /= "valid" \/ blob.key /= key \/ blob.iv /= iv

\* C17: open applied to a blob that differs from the sealed one in a bit of
\* the ciphertext or of the tag, or applied with a different key or IV, fails
\* with AuthenticationFailure; open never returns a value for a modified blob.
C17_TamperDetected ==
  opened.result /= None =>
    LET blob == Val(opened.blob)
        result == Val(opened.result)
        modified == Modified(blob, Val(opened.key), Val(opened.iv))
    IN /\ modified => ~result.ok
       /\ (modified /\ blob.bytes > GCM_AUTH_TAG_LENGTH) =>
            result.cause = "AuthenticationFailure"
       /\ (~modified /\ IsJson(blob.text)) =>
            result = [ok |-> TRUE, value |-> JsonParse(blob.text)]

\* C17 witness: an intact blob opened with a key it was not sealed under.
C17_Witness ==
  /\ opened.result /= None
  /\ Val(opened.blob).tag = "valid"
  /\ Val(opened.blob).key /= Val(opened.key)
  /\ ~Val(opened.result).ok

\* C18: decryptPayload fails with PayloadTooShort exactly when the blob is
\* shorter than the 16-byte tag (a blob of exactly 16 bytes goes on to tag
\* verification), and on the body path that failure is answered with
\* 400 'Decryption failed'.
C18_TooShort ==
  /\ \A blob \in CodecBlobs, key \in CodecKeys, iv \in CodecIvs :
       LET result == DecryptPayload(ToBase64(blob), key, ToBase64(iv))
       IN /\ (~result.ok /\ result.cause = "PayloadTooShort")
               <=> blob.bytes < GCM_AUTH_TAG_LENGTH
          /\ (blob.bytes = GCM_AUTH_TAG_LENGTH /\ Modified(blob, key, iv)) =>
               (~result.ok /\ result.cause = "AuthenticationFailure")
  /\ (lastReq.path = "body" /\ lastReq.cause = "PayloadTooShort") =>
       lastReq.response = Some(DecryptionFailed)

\* C19: destroy() on the in-memory store leaves the store empty and the timer
\* handle cleared; from then on the timer is never armed again and no sweep
\* removes a record (records go only by another destroy()); destroy() on a
\* destroyed store has the same result and changes nothing else. destroy() on
\* the Redis store issues no command and leaves every key and TTL unchanged.
C19_Destroy ==
  /\ [][(Destroy /\ backend = "memory") =>
          (store' = StoreAfterDestroy /\ cleanupTimer' = FALSE)]_vars
  /\ [][(backend = "memory" /\ ~cleanupTimer) =>
          /\ ~cleanupTimer'
          /\ \/ store' = StoreAfterDestroy
             \/ \A k \in MemoryKeys : store[k] /= None => store'[k] = store[k]]_vars
  /\ [][(Destroy /\ backend = "redis") =>
          (redis' = redis /\ calls' = calls /\ store' = store
           /\ cleanupTimer' = cleanupTimer)]_vars
  /\ [](backend = "redis" => (~cleanupTimer /\ store = StoreAfterDestroy))

\* C19 witness: a destroyed in-memory store that has accepted a request since
\* and whose record is older than the sweep threshold.
C19_Witness ==
  /\ backend = "memory"
  /\ ~cleanupTimer
  /\ \E k \in MemoryKeys : store[k] /= None /\ EntryIsStale(Val(store[k]))

\* The validate call of request p, waiting for EXPIRE, has created the record
\* of its id: its SETNX was answered 1.
CreatedRecord(p) == reqs[p].pc = "expire"

\* C20: a validate call that fails (MissingFields, Expired, ReplayDetected or
\* an error of the store) has created no record and leaves every record and
\* its expiry as they were, on the in-memory store and on Redis.
C20_FailureLeavesStore ==
  /\ [][(received' /= received /\ lastReq' /= lastReq
          /\ lastReq'.guard \in GuardFailures \cup {"StoreError"})
          => (store' = store /\ redis' = redis)]_vars
  /\ [][\A p \in Procs :
          (/\ reqs[p].pc \in {"setnx", "expire"}
           /\ reqs'[p].pc = "idle"
           /\ lastReq'.guard \in GuardFailures \cup {"StoreError"})
          => (redis' = redis /\ ~CreatedRecord(p))]_vars

\* C21: on the in-memory store, whenever the sweep runs and destroy() being
\* absent, no validate call accepts a (requestId, timestamp) pair that was
\* accepted before; the sweep removes only records older than 2 * maxAge, and
\* when a record is removed every timestamp that was fresh at its creation is
\* outside the freshness window.
C21_PairAcceptedOnce ==
  /\ [][\A r \in RequestIds :
          (last' /= last /\ last'.outcome = "Ok" /\ last'.requestId = Some(r))
          => (last'.timestamp /= lastAccepted[r] /\ store[MemoryKey(r)] = None)]_vars
  /\ [][\A k \in MemoryKeys :
          (store[k] /= None /\ store'[k] /= store[k]) =>
            LET created == Val(store[k]).timestamp
            IN /\ store'[k] = None
               /\ now - created > 2 * maxAge
               /\ \A t \in (created - maxAge)..(created + maxAge) :
                    RequestExpired(now, Some(t))]_vars

\* C21 witness: an accepted pair is presented again after its record was
\* swept, and is rejected as expired.
C21_Witness ==
  /\ last.outcome = "Expired"
  /\ last.requestId \in {Some(r) : r \in RequestIds}
  /\ last.timestamp = lastAccepted[Val(last.requestId)]
  /\ store[MemoryKey(Val(last.requestId))] = None

\* C22: ttlSeconds is ceil(2 * maxAge / 1000), never shorter than twice the
\* freshness window, and a key of the Redis store without an expiry exists
\* only while the validate call that created it is still waiting for EXPIRE:
\* once that call has ended, with Ok or with a failure, the key has a TTL.
C22_EveryKeyExpires ==
  /\ ttlSeconds = Ceil(2 * maxAge, MsPerSecond)
  /\ ttlSeconds * MsPerSecond >= 2 * maxAge
  /\ \A r \in RequestIds :
       (redis[RedisKey(r)] /= None /\ Val(redis[RedisKey(r)]).expireAt = None) =>
         \E p \in Procs :
           /\ reqs[p].pc = "expire"
           /\ Val(reqs[p].body).requestId = Some(r)

\* The crypto context decryption() attaches for a request of the given origin
\* and path: none, the header context, or the body context.
OwnContext(path, origin) ==
  IF path = "header"
  THEN Some([aesKey |-> SessionKeyOf(origin), requestId |-> None,
             headerIv |-> origin.iv])
  ELSE IF path = "body"
  THEN Some([aesKey |-> SessionKeyOf(origin), requestId |-> origin.requestId,
             headerIv |-> None])
  ELSE None

\* C23: however the requests in flight interleave, a request in its handler
\* holds the context made from its own envelope, its response is sealed under
\* the session key of that request and carries its own requestId or IV, and a
\* step of one request leaves the body and context of every other as they are.
C23_RequestsIsolated ==
  /\ [](\A p \in Procs :
          reqs[p].pc = "handler" => reqs[p].crypto = OwnContext(reqs[p].path, reqs[p].origin))
  /\ [](lastRes.out /= None =>
          /\ lastRes.crypto = OwnContext(lastRes.path, lastRes.origin)
          /\ Val(lastRes.out).encrypted =>
               /\ FromBase64(Val(Val(lastRes.out).payload)).key = SessionKeyOf(lastRes.origin)
               /\ lastRes.path = "header" => Val(lastRes.out).iv = lastRes.origin.iv
               /\ lastRes.path = "body" =>
                    Val(lastRes.out).requestId = lastRes.origin.requestId)
  /\ [][\A p \in Procs, q \in Procs :
          (p /= q /\ reqs'[p] /= reqs[p]) => reqs'[q] = reqs[q]]_vars

\* C23 witness: a response is emitted under one session key while a request
\* with another session key is between decryption() and its response.
C23_Witness ==
  /\ lastRes.out /= None
  /\ Val(lastRes.out).encrypted
  /\ \E q \in Procs :
       /\ reqs[q].pc \in {"handler", "setnx", "expire"}
       /\ reqs[q].origin /= NoOrigin
       /\ SessionKeyOf(reqs[q].origin) /= SessionKeyOf(lastRes.origin)

\* C24: res.json seals its value exactly when a crypto context is attached to
\* the request; a context is attached only by a request that called next(),
\* after unwrap on the header path and after validate, unwrap and open on the
\* body path, and never to a request still waiting for the guard; a request
\* answered with an error response has no context, so that response goes out
\* as plaintext.
C24_SealedIffContext ==
  /\ lastRes.out /= None =>
       (Val(lastRes.out).encrypted <=> lastRes.crypto /= None)
  /\ lastReq.crypto /= None =>
       /\ lastReq.cause = "none"
       /\ lastReq.nextCalls = 1
       /\ lastReq.response = None
       /\ lastReq.path \in {"header", "body"}
       /\ lastReq.path = "header" => lastReq.steps = <<"unwrap", "context", "next">>
       /\ lastReq.path = "body" =>
            /\ lastReq.steps \in {BodyOrder, SubSeq(BodyOrder, 2, Len(BodyOrder))}
            /\ backend /= "none" => (lastReq.guard = "Ok" /\ lastReq.steps = BodyOrder)
  /\ \A p \in Procs : reqs[p].crypto /= None => reqs[p].pc = "handler"
  /\ lastReq.response /= None =>
       /\ lastReq.crypto = None
       /\ Val(lastReq.response).status \in {400, 500}
       /\ \A iv \in RandomIvs :
            Encryption(lastReq.crypto, Val(lastReq.response).body, iv)
              = RawOutput(Val(lastReq.response).body)

\* C24 witness: after a sealed response went out, a request that was
\* unwrapped but failed to open is answered with an error response.
C24_Witness ==
  /\ lastRes.out /= None
  /\ Val(lastRes.out).encrypted
  /\ lastReq.response /= None
  /\ lastReq.steps = <<"validate", "unwrap", "open">>

\* The envelope of a body: the flat one when the body has key, payload and iv,
\* else the one under data when that has them.
EnvelopeOf(body) ==
  IF body /= None /\ Shaped(Val(body)) THEN body
  ELSE IF body /= None /\ Val(body).data /= None /\ Shaped(Val(Val(body).data))
  THEN Val(body).data
  ELSE None

\* C25: every request takes exactly one path.  A GET with x-encrypted = '1'
\* takes the header path and its body is not looked at; a request of another
\* method whose body holds an envelope takes the body path with the flat
\* envelope when there is one, else with the nested one; every other request,
\* a GET without the marker whose body holds an envelope included, is passed
\* through with no crypto context.
C25_PathSelection ==
  [][\A p \in Procs, req \in ShapeRequests, m \in RsaMessages :
       Receive(p, req, FALSE, m) =>
         LET header == req.method = "GET" /\ req.marker = Some("1")
             envelope == EnvelopeOf(req.body)
             body == req.method /= "GET" /\ envelope /= None
         IN /\ header =>
                 /\ lastReq'.path = "header"
                 /\ lastReq'.value = None
                 /\ processed' = processed
                 /\ reqs'[p].pc = "handler" =>
                      /\ reqs'[p].path = "header"
                      /\ reqs'[p].origin = Origin(req.xkey, req.xiv, None)
            /\ (body /\ ~header) =>
                 /\ reqs'[p].pc = "idle" => lastReq'.path = "body"
                 /\ reqs'[p].pc /= "idle" =>
                      /\ reqs'[p].path = "body"
                      /\ reqs'[p].origin = BodyOrigin(Val(envelope))
            /\ (~body /\ ~header) =>
                 /\ lastReq'.path = "passthrough"
                 /\ lastReq'.nextCalls = 1
                 /\ lastReq'.crypto = None
                 /\ reqs'[p].pc = "handler"
                 /\ reqs'[p].path = "passthrough"
                 /\ reqs'[p].crypto = None]_vars

\* C25 witness: a body with both shapes is in its handler with the context of
\* its flat envelope.
C25_Witness ==
  \E p \in Procs :
    /\ reqs[p].pc = "handler"
    /\ reqs[p].path = "body"
    /\ reqs[p].origin = BodyOrigin(OuterEnvelope)
    /\ reqs[p].crypto /= None

\* A request any client could have made with ClientCrypto.encryptRequest and
\* the given request id.
ValidRequest(r) ==
  [method |-> "POST", marker |-> None, xkey |-> None, xiv |-> None,
   body |-> Some(Envelope(GoodKey, GoodPayload, Some(r), Some(now)))]

\* C26: a body-path request that passed the guard and then failed to unwrap or
\* to open is rejected, nothing of it is handed to business logic, and the
\* record of its requestId stays; a valid request that arrives with a
\* requestId whose record is in the store is rejected with ReplayDetected.
C26_MarkSurvivesFailure ==
  /\ [][(/\ lastReq' /= lastReq
          /\ lastReq'.path = "body"
          /\ lastReq'.guard = "Ok"
          /\ lastReq'.cause \in DecryptionCauses) =>
          /\ lastReq'.nextCalls = 0
          /\ lastReq'.value = None
          /\ processed' = processed
          /\ backend = "memory" =>
               \E k \in MemoryKeys :
                 store[k] = None /\ store'[k] = Some([timestamp |-> now])
          /\ backend = "redis" =>
               \E p \in Procs :
                 /\ reqs[p].pc = "expire"
                 /\ reqs'[p].pc = "idle"
                 /\ redis'[RedisKey(Val(Val(reqs[p].body).requestId))] /= None]_vars
  /\ [][\A p \in Procs, r \in RequestIds, o \in BOOLEAN, m \in RsaMessages :
          (/\ backend = "memory"
           /\ store[MemoryKey(r)] /= None
           /\ Receive(p, ValidRequest(r), o, m)) =>
          /\ lastReq'.guard = "ReplayDetected"
          /\ lastReq'.nextCalls = 0
          /\ lastReq'.response \in {None, Some(ErrorResponse(ReplayError("ReplayDetected")))}
          /\ store' = store]_vars
  /\ [][\A p \in Procs :
          (/\ reqs[p].pc = "setnx"
           /\ reqs'[p].pc /= "setnx"
           /\ redis[RedisKey(Val(Val(reqs[p].body).requestId))] /= None
           /\ lastReq'.guard /= "StoreError") =>
          /\ lastReq'.guard = "ReplayDetected"
          /\ lastReq'.nextCalls = 0
          /\ reqs'[p].pc = "idle"]_vars

\* C26 witness: a request is rejected with ReplayDetected although no envelope
\* was ever handed to business logic: the record of its id was left by a
\* request that passed the guard and failed to decrypt.
C26_Witness ==
  /\ backend = "memory"
  /\ lastReq.guard = "ReplayDetected"
  /\ \A e \in EnvelopeIds : processed[e] = 0
  /\ \E k \in MemoryKeys : store[k] /= None

\* A body envelope with key, payload and iv as the client made them and with
\* the given requestId and timestamp.
EnvelopeRequest(r, t) ==
  [method |-> "POST", marker |-> None, xkey |-> None, xiv |-> None,
   body |-> Some(Envelope(GoodKey, GoodPayload, r, t))]

\* The envelopes that lack requestId or timestamp.
LackingFields ==
  {<<r, t>> \in ({None} \cup {Some(x) : x \in RequestIds}) \X {None, Some(now)} :
     r = None \/ t = None}

\* C27: the middleware has no replay store exactly when replayProtection is
\* false, and the in-memory store unless replayStore is 'redis'.  With a store,
\* an envelope lacking requestId or timestamp is answered 400 'Missing
\* requestId or timestamp' and is neither unwrapped nor opened; with no store
\* the guard is never consulted and that envelope is decrypted and handed on.
C27_ProtectionDefault ==
  /\ [](\A opt \in StoreOptions :
          /\ CreateReplayStore(opt) = "none" <=> opt.replayProtection = Some(FALSE)
          /\ (opt.replayProtection /= Some(FALSE) /\ opt.replayStore /= Some("redis"))
               => CreateReplayStore(opt) = "memory")
  /\ [](backend \in {CreateReplayStore(opt) : opt \in StoreOptions})
  /\ [][\A p \in Procs, f \in LackingFields, o \in ObserverThrows, m \in RsaMessages :
          Receive(p, EnvelopeRequest(f[1], f[2]), o, m) =>
            IF backend /= "none"
            THEN /\ lastReq'.guard = "MissingFields"
                 /\ lastReq'.response = Some(ErrorResponse(ReplayError("MissingFields")))
                 /\ Val(lastReq'.response).status = 400
                 /\ lastReq'.steps = <<"validate">>
                 /\ lastReq'.nextCalls = 0
                 /\ store' = store /\ redis' = redis
            ELSE /\ lastReq'.guard = "none"
                 /\ lastReq'.steps = SubSeq(BodyOrder, 2, Len(BodyOrder))
                 /\ lastReq'.nextCalls = 1
                 /\ lastReq'.value = Some(ClientValue)
                 /\ reqs'[p].pc = "handler"
                 /\ store' = store /\ redis' = redis]_vars
  /\ [](backend = "none" =>
          /\ lastReq.guard = "none"
          /\ \A i \in 1..Len(lastReq.steps) : lastReq.steps[i] /= "validate"
          /\ \A k \in MemoryKeys : store[k] = None
          /\ \A k \in RedisKeys : redis[k] = None)

====
